---- MODULE Spec2Model ----
(***************************************************************************)
(* SPZ Devpack Builder (src/js/app.js): the local-file list, the scan      *)
(* (extraction of asset URLs, concurrent fetch and naming), the download   *)
(* gate, the base-name field and the archive build.                        *)
(*                                                                         *)
(* JavaScript strings are TLA+ strings; a JavaScript Set is a sequence     *)
(* without repetition and a Map a sequence of <<key, value>> pairs with    *)
(* distinct keys, both in insertion order.                                 *)
(***************************************************************************)
EXTENDS Integers, Sequences, FiniteSets, TLC

(***************************************************************************)
(* String primitives of JavaScript                                         *)
(***************************************************************************)
Ch(s, i) == SubSeq(s, i, i)

Drop(s, n) == SubSeq(s, n + 1, Len(s))

StartsWithAt(s, i, p) ==
    /\ i >= 1
    /\ i + Len(p) - 1 <= Len(s)
    /\ SubSeq(s, i, i + Len(p) - 1) = p

startsWith(s, p) == StartsWithAt(s, 1, p)

endsWith(s, p) == StartsWithAt(s, Len(s) - Len(p) + 1, p)

includes(s, p) == \E i \in 1..Len(s) : StartsWithAt(s, i, p)

UpperCase == <<"A", "B", "C", "D", "E", "F", "G", "H", "I", "J", "K", "L", "M",
               "N", "O", "P", "Q", "R", "S", "T", "U", "V", "W", "X", "Y", "Z">>

LowerCase == <<"a", "b", "c", "d", "e", "f", "g", "h", "i", "j", "k", "l", "m",
               "n", "o", "p", "q", "r", "s", "t", "u", "v", "w", "x", "y", "z">>

Range(q) == {q[k] : k \in 1..Len(q)}

LowerChar(c) ==
    IF c \in Range(UpperCase)
    THEN LowerCase[CHOOSE k \in 1..Len(UpperCase) : UpperCase[k] = c]
    ELSE c

RECURSIVE toLowerCase(_)
toLowerCase(s) ==
    IF Len(s) = 0 THEN s ELSE LowerChar(Ch(s, 1)) \o toLowerCase(Drop(s, 1))

\* a literal matched under the regex flag i
StartsWithAtCI(s, i, p) ==
    /\ i >= 1
    /\ i + Len(p) - 1 <= Len(s)
    /\ toLowerCase(SubSeq(s, i, i + Len(p) - 1)) = p

\* \s
IsSpace(c) == c \in {" ", "\t", "\n", "\r", "\f"}

RECURSIVE trimStart(_)
trimStart(s) ==
    IF Len(s) > 0 /\ IsSpace(Ch(s, 1)) THEN trimStart(Drop(s, 1)) ELSE s

RECURSIVE trimEnd(_)
trimEnd(s) ==
    IF Len(s) > 0 /\ IsSpace(Ch(s, Len(s)))
    THEN trimEnd(SubSeq(s, 1, Len(s) - 1))
    ELSE s

trim(s) == trimEnd(trimStart(s))

\* s.split(c)[0]: the text before the first occurrence of any character of cs
BeforeFirst(s, cs) ==
    LET hits == {i \in 1..Len(s) : Ch(s, i) \in cs}
    IN  IF hits = {} THEN s
        ELSE SubSeq(s, 1, (CHOOSE i \in hits : \A j \in hits : i <= j) - 1)

\* s.split(c).pop(): the text after the last occurrence of c
AfterLast(s, c) ==
    LET hits == {i \in 1..Len(s) : Ch(s, i) = c}
    IN  IF hits = {} THEN s
        ELSE Drop(s, CHOOSE i \in hits : \A j \in hits : j <= i)

SetMin(S) == CHOOSE i \in S : \A j \in S : i <= j

SetMax(S) == CHOOSE i \in S : \A j \in S : j <= i

(***************************************************************************)
(* JavaScript Set and Map, in insertion order                              *)
(***************************************************************************)
SetAdd(q, x) == IF x \in Range(q) THEN q ELSE Append(q, x)

Keys(m) == {m[k][1] : k \in 1..Len(m)}

Values(m) == {m[k][2] : k \in 1..Len(m)}

\* Map.prototype.set: an existing key keeps its place and takes the new value
MapSet(m, key, val) ==
    IF key \in Keys(m)
    THEN [k \in 1..Len(m) |-> IF m[k][1] = key THEN <<key, val>> ELSE m[k]]
    ELSE Append(m, <<key, val>>)

\* urlRegex (line 190), flags g and i, written with spaces between its parts:
\*   (?: url\( \s* ['"]? | ['"] )?
\*   ( (?:https?:)? \/\/ [^\s"'()]+ \/ [^\s"'()]+? \. (js|css|...|eot)
\*     ( \? [^\s"'()]* )? )
\*   (?: ['"]? \s* \) )?
IsQuote(c) == c \in {"\"", "'"}

\* [^\s"'()]
UrlChar(c) == ~IsSpace(c) /\ ~IsQuote(c) /\ c \notin {"(", ")"}

\* the last index of the longest run of [^\s"'()] that starts at i (i - 1: none)
RECURSIVE RunEnd(_, _)
RunEnd(s, i) ==
    IF i <= Len(s) /\ UrlChar(Ch(s, i)) THEN RunEnd(s, i + 1) ELSE i - 1

RECURSIVE SpaceEnd(_, _)
SpaceEnd(s, i) ==
    IF i <= Len(s) /\ IsSpace(Ch(s, i)) THEN SpaceEnd(s, i + 1) ELSE i - 1

\* the alternation (js|css|png|jpe?g|...|woff2?|ttf|otf|eot) in the order the
\* regex engine tries it: e? and 2? are greedy
Extensions == <<"js", "css", "png", "jpeg", "jpg", "svg", "webp", "gif", "mp4",
                "webm", "ogg", "woff2", "woff", "ttf", "otf", "eot">>

\* the length of the extension the engine takes at index i, 0 if none matches
ExtLen(s, i) ==
    LET hits == {k \in 1..Len(Extensions) : StartsWithAtCI(s, i, Extensions[k])}
    IN  IF hits = {} THEN 0 ELSE Len(Extensions[SetMin(hits)])

\* the body of group 1 (after the two slashes) from index a: the index of the
\* dot before the extension, 0 if there is no match. The first group is greedy
\* (the last usable "/"), the second lazy (the first ".ext" after it).
UrlDot(s, a) ==
    LET r == RunEnd(s, a)
        dots(j) == {d \in (j + 2)..r : Ch(s, d) = "." /\ ExtLen(s, d + 1) > 0}
        slashes == {j \in (a + 1)..r : Ch(s, j) = "/" /\ dots(j) # {}}
    IN  IF slashes = {} THEN 0 ELSE SetMin(dots(SetMax(slashes)))

\* the index of the last character of the body: the extension and the query
UrlBodyEnd(s, a) ==
    LET d == UrlDot(s, a)
        e == d + ExtLen(s, d + 1)
    IN  IF d = 0 THEN 0
        ELSE IF StartsWithAt(s, e + 1, "?") THEN RunEnd(s, e + 2) ELSE e

\* the index after the optional scheme (?:https?:)? of a URL that starts at u
SchemeEnd(s, u) ==
    IF StartsWithAtCI(s, u, "https://") THEN u + 6
    ELSE IF StartsWithAtCI(s, u, "http://") THEN u + 5
    ELSE u

\* capture group 1 from index u: the optional scheme, the two slashes and the
\* body; 0 if no match
UrlEnd(s, u) ==
    IF StartsWithAt(s, SchemeEnd(s, u), "//")
    THEN UrlBodyEnd(s, SchemeEnd(s, u) + 2)
    ELSE 0

\* capture group 2 of a match whose group 1 is rawUrl, in lower case
ExtensionOf(rawUrl) ==
    LET d == UrlDot(rawUrl, SchemeEnd(rawUrl, 1) + 2)
    IN  toLowerCase(SubSeq(rawUrl, d + 1, d + ExtLen(rawUrl, d + 1)))

\* the index where group 1 starts for a match that starts at index i: after
\* the url-wrapper prefix, after a quote, or at i itself, in the engine's order
UrlStart(s, i) ==
    LET afterUrl == SpaceEnd(s, i + 4) + 1
        u1 == IF afterUrl <= Len(s) /\ IsQuote(Ch(s, afterUrl))
              THEN afterUrl + 1 ELSE afterUrl
    IN  IF StartsWithAtCI(s, i, "url(") /\ UrlEnd(s, u1) > 0 THEN u1
        ELSE IF i <= Len(s) /\ IsQuote(Ch(s, i)) /\ UrlEnd(s, i + 1) > 0 THEN i + 1
        ELSE i

\* the optional closing quote, spaces and parenthesis after index e: the index
\* of the last character of the whole match
SuffixEnd(s, e) ==
    LET q == IF e + 1 <= Len(s) /\ IsQuote(Ch(s, e + 1)) THEN e + 1 ELSE e
        w == SpaceEnd(s, q + 1)
        v == SpaceEnd(s, e + 1)
    IN  IF StartsWithAt(s, w + 1, ")") THEN w + 1
        ELSE IF StartsWithAt(s, v + 1, ")") THEN v + 1
        ELSE e

\* [...text.matchAll(urlRegex)].map(match => match[1]), searching from index i
RECURSIVE matchAll(_, _)
matchAll(s, i) ==
    IF i > Len(s) THEN <<>>
    ELSE LET u == UrlStart(s, i)
             e == UrlEnd(s, u)
         IN  IF e > 0
             THEN <<SubSeq(s, u, e)>> \o matchAll(s, SuffixEnd(s, e) + 1)
             ELSE matchAll(s, i + 1)

(***************************************************************************)
(* extractAssetsFromFiles: classification of one match (lines 199-213)     *)
(***************************************************************************)
Categories == {"images", "css", "js", "fonts"}

\* fullUrl.endsWith('.js') || fullUrl.includes('.js?')
JsPattern(fullUrl) == endsWith(fullUrl, ".js") \/ includes(fullUrl, ".js?")

CssPattern(fullUrl) == endsWith(fullUrl, ".css") \/ includes(fullUrl, ".css?")

\* /\.(exts)([\?#][^"')\s]*)?$/i
TailPattern(s, exts) ==
    \E d \in 1..Len(s) : \E x \in exts :
        /\ Ch(s, d) = "."
        /\ StartsWithAtCI(s, d + 1, x)
        /\ LET e == d + Len(x)
           IN  \/ e = Len(s)
               \/ /\ Ch(s, e + 1) \in {"?", "#"}
                  /\ \A k \in (e + 2)..Len(s) :
                        ~IsSpace(Ch(s, k)) /\ ~IsQuote(Ch(s, k)) /\ Ch(s, k) # ")"

ImagePattern(fullUrl) ==
    TailPattern(fullUrl, {"png", "jpeg", "jpg", "svg", "webp", "gif", "mp4",
                          "webm", "ogg"})

FontPattern(fullUrl) ==
    TailPattern(fullUrl, {"woff2", "woff", "ttf", "otf", "eot"})

\* const fullUrl = rawUrl.startsWith('//') ? 'https:' + rawUrl : rawUrl
Normalize(rawUrl) == IF startsWith(rawUrl, "//") THEN "https:" \o rawUrl ELSE rawUrl

\* the if / else-if chain under independent ifs: a URL is added to every set
\* whose test it passes
AddMatchNoElse(assets, rawUrl, include) ==
    LET fullUrl == Normalize(rawUrl)
        hit == [js |-> JsPattern(fullUrl) /\ include.js,
                css |-> CssPattern(fullUrl) /\ include.css,
                images |-> ImagePattern(fullUrl) /\ include.images,
                fonts |-> FontPattern(fullUrl) /\ include.fonts]
    IN  [c \in Categories |-> IF hit[c] THEN SetAdd(assets[c], fullUrl) ELSE assets[c]]

\* the body of matches.forEach: normalize, then the if / else-if chain
AddMatch(assets, rawUrl, include) ==
    LET fullUrl == Normalize(rawUrl)
    IN  IF JsPattern(fullUrl) /\ include.js
        THEN [assets EXCEPT !.js = SetAdd(@, fullUrl)]
        ELSE IF CssPattern(fullUrl) /\ include.css
        THEN [assets EXCEPT !.css = SetAdd(@, fullUrl)]
        ELSE IF ImagePattern(fullUrl) /\ include.images
        THEN [assets EXCEPT !.images = SetAdd(@, fullUrl)]
        ELSE IF FontPattern(fullUrl) /\ include.fonts
        THEN [assets EXCEPT !.fonts = SetAdd(@, fullUrl)]
        ELSE assets

RECURSIVE AddMatches(_, _, _)
AddMatches(assets, matches, include) ==
    IF matches = <<>> THEN assets
    ELSE AddMatches(AddMatch(assets, Head(matches), include), Tail(matches), include)

EmptyAssets == [c \in Categories |-> <<>>]

(***************************************************************************)
(* validateAndFetchAssets: the synchronous part (lines 317-379)            *)
(***************************************************************************)
EmptyValid == [c \in Categories |-> <<>>]

\* Object.entries(assets): the keys in the order of the literal of line 177
AssetOrder == <<"images", "css", "js", "fonts">>

RECURSIVE Entries(_, _)
Entries(assets, k) ==
    IF k > Len(AssetOrder) THEN <<>>
    ELSE [i \in 1..Len(assets[AssetOrder[k]]) |->
             [type |-> AssetOrder[k], rawUrl |-> assets[AssetOrder[k]][i]]]
         \o Entries(assets, k + 1)

\* let url = rawUrl.trim(); if (url.startsWith('//')) url = 'https:' + url
FetchUrl(rawUrl) == Normalize(trim(rawUrl))

\* the test with the flag i
SupportedAnyCase(url) ==
    startsWith(toLowerCase(url), "http://") \/ startsWith(toLowerCase(url), "https://")

\* /^https?:\/\//
Supported(url) == startsWith(url, "http://") \/ startsWith(url, "https://")

Unsupported == "Unsupported or local path"

\* the failed entries pushed before any fetch is issued
LocalFailures(assets) ==
    LET bad(e) == ~Supported(FetchUrl(e.rawUrl))
        es == SelectSeq(Entries(assets, 1), bad)
    IN  [i \in 1..Len(es) |->
            [url |-> es[i].rawUrl, type |-> es[i].type, reason |-> Unsupported]]

\* allFetches: one fetch per supported URL
IssuedFetches(assets) ==
    LET good(e) == Supported(FetchUrl(e.rawUrl))
        es == SelectSeq(Entries(assets, 1), good)
    IN  [i \in 1..Len(es) |-> [url |-> FetchUrl(es[i].rawUrl), type |-> es[i].type]]

(***************************************************************************)
(* Collision renaming (lines 330-339 and the folder loops of the build)    *)
(***************************************************************************)
DuplicateName(i, base) == "duplicate-" \o ToString(i) \o "-" \o base

\* let name = base; let i = 1; while (tracker.has(name)) name = duplicate-i++-base
\* The loop stops at the first i whose name is unused; a tracker of n names
\* holds at most n of the n + 1 candidates tried here.
RenameLoop(base, tracker) ==
    IF base \notin tracker THEN base
    ELSE DuplicateName(
             SetMin({i \in 1..(Cardinality(tracker) + 1) :
                        DuplicateName(i, base) \notin tracker}),
             base)

\* url.split('/').pop().split('?')[0].split('#')[0]
UrlBase(url) == BeforeFirst(BeforeFirst(AfterLast(url, "/"), {"?"}), {"#"})

\* a naming that forgets the tracker
generateUniqueNameNoTracker(url, assetNameTracker) == UrlBase(url)

generateUniqueName(url, assetNameTracker) == RenameLoop(UrlBase(url), assetNameTracker)

(***************************************************************************)
(* Local files (lines 69-111)                                              *)
(***************************************************************************)
\* `${f.name}-${f.size}-${f.lastModified}`
FileKey(f) == f.name \o "-" \o ToString(f.size) \o "-" \o ToString(f.lastModified)

\* the filter of the drop handler: /\.(js|css|html)$/
Droppable(f) ==
    endsWith(f.name, ".js") \/ endsWith(f.name, ".css") \/ endsWith(f.name, ".html")

\* a dedup by name alone
updatePreviewByName(files, fileSet, newFiles) ==
    LET names == {files[k].name : k \in 1..Len(files)}
        fresh(k) == newFiles[k].name \notin names
                    /\ \A j \in 1..(k - 1) : newFiles[j].name # newFiles[k].name
        idx == SelectSeq([k \in 1..Len(newFiles) |-> k], fresh)
    IN  [collectedFiles |-> files \o [k \in 1..Len(idx) |-> newFiles[idx[k]]],
         uploadedFileSet |-> fileSet \cup {FileKey(newFiles[idx[k]]) : k \in 1..Len(idx)}]

\* a push of every new file, as in the lines the source has commented out
updatePreviewPushAll(files, fileSet, newFiles) ==
    [collectedFiles |-> files \o newFiles,
     uploadedFileSet |-> fileSet \cup {FileKey(newFiles[k]) : k \in 1..Len(newFiles)}]

\* updatePreview(newFiles): the new value of collectedFiles and uploadedFileSet
updatePreview(files, fileSet, newFiles) ==
    LET fresh(k) == FileKey(newFiles[k]) \notin fileSet
                    /\ \A j \in 1..(k - 1) : FileKey(newFiles[j]) # FileKey(newFiles[k])
        idx == SelectSeq([k \in 1..Len(newFiles) |-> k], fresh)
    IN  [collectedFiles |-> files \o [k \in 1..Len(idx) |-> newFiles[idx[k]]],
         uploadedFileSet |-> fileSet \cup {FileKey(newFiles[idx[k]]) : k \in 1..Len(idx)}]

(***************************************************************************)
(* The base-name field (lines 396-407)                                     *)
(***************************************************************************)
IsNameChar(c) ==
    c \in Range(UpperCase) \cup Range(LowerCase)
          \cup {"0", "1", "2", "3", "4", "5", "6", "7", "8", "9", "-"}

\* a replacement of each whitespace character, as without the + of the pattern
RECURSIVE HyphenateEverySpace(_)
HyphenateEverySpace(s) ==
    IF Len(s) = 0 THEN s
    ELSE (IF IsSpace(Ch(s, 1)) THEN "-" ELSE Ch(s, 1)) \o HyphenateEverySpace(Drop(s, 1))

\* .replace(/\s+/g, '-')
RECURSIVE HyphenateSpaces(_)
HyphenateSpaces(s) ==
    IF Len(s) = 0 THEN s
    ELSE IF IsSpace(Ch(s, 1))
    THEN "-" \o HyphenateSpaces(Drop(s, SpaceEnd(s, 1)))
    ELSE Ch(s, 1) \o HyphenateSpaces(Drop(s, 1))

\* .replace(/[^a-zA-Z0-9-]/g, '')
RECURSIVE StripSpecial(_)
StripSpecial(s) ==
    IF Len(s) = 0 THEN s
    ELSE (IF IsNameChar(Ch(s, 1)) THEN Ch(s, 1) ELSE "") \o StripSpecial(Drop(s, 1))

Sanitize(value) == StripSpecial(HyphenateSpaces(trim(value)))

\* /^[a-zA-Z0-9-]+$/.test(name) && name.length > 0
IsValidName(name) ==
    Len(name) > 0 /\ \A i \in 1..Len(name) : IsNameChar(Ch(name, i))

(***************************************************************************)
(* The archive build (lines 428-576).  A zip is a Map from path to         *)
(* content; null is the empty tuple and a value v is <<v>>.                *)
(***************************************************************************)
Null == <<>>

Some(v) == <<v>>

Dir == [kind |-> "dir", of |-> ""]

LocalFile(f) == [kind |-> "file", of |-> FileKey(f)]

Blob(url) == [kind |-> "blob", of |-> url]

\* the local-files loop (lines 444-454) from file k on.  The condition of its
\* while tests fileKey, which the body never changes: entered once, the loop
\* never ends.
RECURSIVE AddLocalFiles(_, _, _, _, _)
AddLocalFiles(zip, root, files, k, fileKeyTracker) ==
    IF k > Len(files) THEN [status |-> "ok", zip |-> zip]
    ELSE IF FileKey(files[k]) \in fileKeyTracker
    THEN [status |-> "hung", zip |-> zip]
    ELSE AddLocalFiles(MapSet(zip, root \o files[k].name, LocalFile(files[k])),
                       root, files, k + 1,
                       fileKeyTracker \cup {FileKey(files[k])})

IsVideoName(filename) ==
    \E x \in {".mp4", ".webm", ".ogg"} : endsWith(toLowerCase(filename), x)

IsGifName(filename) == endsWith(toLowerCase(filename), ".gif")

\* the tests with an images folder that turns away only the videos
InFolderGifsTwice(folder, filename) ==
    CASE folder = "images" -> ~IsVideoName(filename)
      [] folder = "videos" -> IsVideoName(filename)
      [] folder = "gifs" -> IsGifName(filename)
      [] OTHER -> TRUE

\* the tests with an images folder that turns away only the gifs
InFolderVideosTwice(folder, filename) ==
    CASE folder = "images" -> ~IsGifName(filename)
      [] folder = "videos" -> IsVideoName(filename)
      [] folder = "gifs" -> IsGifName(filename)
      [] OTHER -> TRUE

\* the test each folder loop applies to a filename
InFolder(folder, filename) ==
    CASE folder = "images" -> ~IsGifName(filename) /\ ~IsVideoName(filename)
      [] folder = "videos" -> IsVideoName(filename)
      [] folder = "gifs" -> IsGifName(filename)
      [] OTHER -> TRUE

\* filename.split(/[?#]/)[0]
StripQuery(filename) == BeforeFirst(filename, {"?", "#"})

\* one folder loop (map.forEach) from entry k on, with its normalizedTracker
RECURSIVE AddFolderFiles(_, _, _, _, _, _)
AddFolderFiles(zip, path, folder, map, k, normalizedTracker) ==
    IF k > Len(map) THEN zip
    ELSE IF ~InFolder(folder, map[k][1])
    THEN AddFolderFiles(zip, path, folder, map, k + 1, normalizedTracker)
    ELSE LET finalName == RenameLoop(StripQuery(map[k][1]), normalizedTracker)
         IN  AddFolderFiles(MapSet(zip, path \o finalName, map[k][2]),
                            path, folder, map, k + 1,
                            normalizedTracker \cup {finalName})

\* parent.folder(name), then the folder's loop
AddFolder(zip, path, folder, map) ==
    AddFolderFiles(MapSet(zip, path, Dir), path, folder, map, 1, {})

\* lines 456-569, for a zipContent that is not null
AddFetched(zip, root, content) ==
    LET hasAssets(type) == Len(content[type]) > 0
        names == Keys(content.images)
        assets == root \o "assets/"
        z0 == MapSet(zip, assets, Dir)
        z1 == IF hasAssets("images")
              THEN AddFolder(z0, assets \o "images/", "images", content.images)
              ELSE z0
        z2 == IF hasAssets("fonts")
              THEN AddFolder(z1, assets \o "fonts/", "fonts", content.fonts)
              ELSE z1
        z3 == IF \E n \in names : IsVideoName(n)
              THEN AddFolder(z2, assets \o "videos/", "videos", content.images)
              ELSE z2
        z4 == IF \E n \in names : IsGifName(n)
              THEN AddFolder(z3, assets \o "gifs/", "gifs", content.images)
              ELSE z3
        z5 == IF hasAssets("images") \/ hasAssets("fonts") THEN z4 ELSE zip
        z6 == IF hasAssets("js")
              THEN AddFolder(z5, root \o "script/", "script", content.js)
              ELSE z5
    IN  IF hasAssets("css")
        THEN AddFolder(z6, root \o "style/", "style", content.css)
        ELSE z6

\* the zip the generate handler builds from the state it reads.  With
\* zipContent null, hasAssets('images') reads a property of null and throws.
BuildZip(files, content, name) ==
    LET root == name \o "-devpack/"
        local == AddLocalFiles(<<<<root, Dir>>>>, root, files, 1, {})
    IN  IF local.status = "hung" THEN local
        ELSE IF content = Null THEN [status |-> "threw", zip |-> local.zip]
        ELSE [status |-> "ok", zip |-> AddFetched(local.zip, root, content[1])]

(***************************************************************************)
(* State                                                                   *)
(***************************************************************************)
VARIABLES
    collectedFiles,    \* line 19
    uploadedFileSet,   \* line 20
    zipContent,        \* line 21: Null, or Some(the valid maps of a scan)
    inputFiles,        \* the files property of jsInput, cssInput and htmlInput
    scans,             \* the invocations of processFiles in progress, by slot
    modalShown,        \* modal has the class modal--show
    testName,          \* testNameInput.value
    generateDisabled,  \* generateBtn.disabled
    alertText,         \* the message of the alert() on screen, "" when none
    saved              \* how the last run of the generate handler ended, and
                       \* the filename it gave to saveAs

vars == <<collectedFiles, uploadedFileSet, zipContent, inputFiles, scans,
          modalShown, testName, generateDisabled, alertText, saved>>

Inputs == {"js", "css", "html"}

\* the slots processFiles can run in: a second click before the first scan has
\* ended starts a second invocation
Slots == {1, 2}

Flags == [js : BOOLEAN, css : BOOLEAN, fonts : BOOLEAN, images : BOOLEAN]

AllIncluded == [js |-> TRUE, css |-> TRUE, fonts |-> TRUE, images |-> TRUE]

Pending == [kind |-> "pending", status |-> 0, message |-> ""]

\* a slot no invocation runs in
IdleScan ==
    [pc |-> "idle", include |-> AllIncluded, allFiles |-> <<>>, read |-> <<>>,
     assets |-> EmptyAssets, valid |-> EmptyValid, failed |-> <<>>,
     assetNameTracker |-> {}, allFetches |-> <<>>, outcome |-> <<>>]

NotSaved == [status |-> "none", filename |-> ""]

\* alert() blocks the page until it is dismissed: a handler or a continuation
\* runs only with no alert on screen, and these raise none
Quiet == alertText = "" /\ UNCHANGED alertText

\* the alert of line 138
NoFilesAlert == "Please add files before scanning."

\* the alert of line 421
NotScannedAlert == "Please scan and validate assets first."

File(name, size, lastModified, text) ==
    [name |-> name, size |-> size, lastModified |-> lastModified, text |-> text]

\* the sequences of at most n elements of S
RECURSIVE SeqsUpTo(_, _)
SeqsUpTo(S, n) ==
    IF n = 0 THEN {<<>>}
    ELSE SeqsUpTo(S, n - 1) \cup {Append(q, x) : q \in SeqsUpTo(S, n - 1), x \in S}

(***************************************************************************)
(* Adding files (lines 69-84)                                              *)
(***************************************************************************)
Added(newFiles) ==
    LET r == updatePreview(collectedFiles, uploadedFileSet, newFiles)
    IN  /\ collectedFiles' = r.collectedFiles
        /\ uploadedFileSet' = r.uploadedFileSet

\* the drop handler
Dropped(files) ==
    /\ Added(SelectSeq(files, Droppable))
    /\ UNCHANGED <<zipContent, inputFiles, scans, modalShown, testName,
                   generateDisabled, saved>>
    /\ Quiet

\* the change handler of one file input, whose files the browser has set
Changed(input, files) ==
    /\ inputFiles' = [inputFiles EXCEPT ![input] = files]
    /\ Added(files)
    /\ UNCHANGED <<zipContent, scans, modalShown, testName, generateDisabled, saved>>
    /\ Quiet

(***************************************************************************)
(* processFiles (lines 122-164), one action per stretch between awaits     *)
(***************************************************************************)
AllFiles == inputFiles.js \o inputFiles.css \o inputFiles.html \o collectedFiles

\* a scan button without the check of lines 137-140
processFilesUnchecked(s, include) ==
    /\ scans[s].pc = "idle"
    /\ \A t \in Slots : t < s => scans[t].pc # "idle"
    /\ scans' = [scans EXCEPT ![s] =
          [IdleScan EXCEPT !.pc = IF Len(AllFiles) = 0 THEN "validate" ELSE "extract",
                           !.include = include,
                           !.allFiles = AllFiles]]
    /\ UNCHANGED <<collectedFiles, uploadedFileSet, zipContent, inputFiles,
                   modalShown, testName, generateDisabled, saved>>
    /\ Quiet

\* the click on the scan button, up to the first await
processFiles(s, include) ==
    /\ scans[s].pc = "idle"
    /\ \A t \in Slots : t < s => scans[t].pc # "idle"
    /\ alertText = ""
    /\ IF Len(AllFiles) = 0
       THEN /\ alertText' = NoFilesAlert
            /\ UNCHANGED scans
       ELSE /\ scans' = [scans EXCEPT ![s] =
                  [IdleScan EXCEPT !.pc = "extract", !.include = include,
                                   !.allFiles = AllFiles]]
            /\ UNCHANGED alertText
    /\ UNCHANGED <<collectedFiles, uploadedFileSet, zipContent, inputFiles,
                   modalShown, testName, generateDisabled, saved>>

\* where the scan goes once file number n has been handled
AfterFile(scan, n) == IF n = Len(scan.allFiles) THEN "validate" ELSE "extract"

\* await file.text() resolves: the matches of the text are classified
FileRead(s) ==
    LET scan == scans[s]
        n == Len(scan.read) + 1
    IN  /\ scan.pc = "extract"
        /\ scans' = [scans EXCEPT ![s] =
              [scan EXCEPT !.read = Append(@, TRUE),
                           !.assets = AddMatches(@, matchAll(scan.allFiles[n].text, 1),
                                                 scan.include),
                           !.pc = AfterFile(scan, n)]]
        /\ UNCHANGED <<collectedFiles, uploadedFileSet, zipContent, inputFiles,
                       modalShown, testName, generateDisabled, saved>>
        /\ Quiet

\* a rejection of file.text() that nothing catches: the invocation ends
FileUnreadableAborts(s) ==
    /\ scans[s].pc = "extract"
    /\ scans' = [scans EXCEPT ![s] = IdleScan]
    /\ UNCHANGED <<collectedFiles, uploadedFileSet, zipContent, inputFiles,
                   modalShown, testName, generateDisabled, saved>>
    /\ Quiet

\* await file.text() rejects: the catch of line 215 logs and the loop goes on
FileUnreadable(s) ==
    LET scan == scans[s]
        n == Len(scan.read) + 1
    IN  /\ scan.pc = "extract"
        /\ scans' = [scans EXCEPT ![s] =
              [scan EXCEPT !.read = Append(@, FALSE), !.pc = AfterFile(scan, n)]]
        /\ UNCHANGED <<collectedFiles, uploadedFileSet, zipContent, inputFiles,
                       modalShown, testName, generateDisabled, saved>>
        /\ Quiet

\* a batch whose result and tracker go on from the mapping stored last
validateAndFetchAssetsKeeping(s) ==
    LET scan == scans[s]
        fetches == IssuedFetches(scan.assets)
        kept == IF zipContent = Null THEN EmptyValid ELSE zipContent[1]
    IN  /\ scan.pc = "validate"
        /\ scans' = [scans EXCEPT ![s] =
              [scan EXCEPT !.pc = "fetch",
                           !.valid = kept,
                           !.assetNameTracker = UNION {Keys(kept[c]) : c \in Categories},
                           !.failed = LocalFailures(scan.assets),
                           !.allFetches = fetches,
                           !.outcome = [k \in 1..Len(fetches) |-> Pending]]]
        /\ UNCHANGED <<collectedFiles, uploadedFileSet, zipContent, inputFiles,
                       modalShown, testName, generateDisabled, saved>>
        /\ Quiet

\* validateAndFetchAssets up to await Promise.all: the unsupported URLs fail,
\* one fetch is issued for each of the others
validateAndFetchAssets(s) ==
    LET scan == scans[s]
        fetches == IssuedFetches(scan.assets)
    IN  /\ scan.pc = "validate"
        /\ scans' = [scans EXCEPT ![s] =
              [scan EXCEPT !.pc = "fetch",
                           !.valid = EmptyValid,
                           !.assetNameTracker = {},
                           !.failed = LocalFailures(scan.assets),
                           !.allFetches = fetches,
                           !.outcome = [k \in 1..Len(fetches) |-> Pending]]]
        /\ UNCHANGED <<collectedFiles, uploadedFileSet, zipContent, inputFiles,
                       modalShown, testName, generateDisabled, saved>>
        /\ Quiet

PendingFetches(scan) ==
    {k \in 1..Len(scan.allFetches) : scan.outcome[k].kind = "pending"}

\* the .catch of line 369
Failed(scan, k, outcome, reason) ==
    [scan EXCEPT !.outcome[k] = outcome,
                 !.failed = Append(@, [url |-> scan.allFetches[k].url,
                                       type |-> scan.allFetches[k].type,
                                       reason |-> reason])]

\* the .then of line 363 with res.ok and a body that is read
Fetched(scan, k) ==
    LET f == scan.allFetches[k]
        filename == generateUniqueName(f.url, scan.assetNameTracker)
    IN  [scan EXCEPT !.outcome[k] = [kind |-> "ok", status |-> 200, message |-> ""],
                     !.assetNameTracker = @ \cup {filename},
                     !.valid[f.type] = MapSet(@, filename, Blob(f.url))]

Settle(s, k, scan) ==
    /\ scans[s].pc = "fetch"
    /\ k \in PendingFetches(scans[s])
    /\ scans' = [scans EXCEPT ![s] = scan]
    /\ UNCHANGED <<collectedFiles, uploadedFileSet, zipContent, inputFiles,
                   modalShown, testName, generateDisabled, saved>>
    /\ Quiet

FetchOk(s, k) == Settle(s, k, Fetched(scans[s], k))

\* res.ok is false: throw new Error(`HTTP ${res.status}`)
FetchNotOk(s, k, status) ==
    Settle(s, k, Failed(scans[s], k,
                        [kind |-> "status", status |-> status, message |-> ""],
                        "HTTP " \o ToString(status)))

\* fetch rejects
FetchRejected(s, k, message) ==
    Settle(s, k, Failed(scans[s], k,
                        [kind |-> "network", status |-> 0, message |-> message],
                        message))

\* res.ok is true and res.blob() rejects
BlobRejected(s, k, message) ==
    Settle(s, k, Failed(scans[s], k,
                        [kind |-> "body", status |-> 200, message |-> message],
                        message))

\* a barrier that a failed fetch keeps shut, as without the .catch of line 369
AllSucceeded(scan) == \A k \in DOMAIN scan.outcome : scan.outcome[k].kind = "ok"

\* a barrier that any one settled fetch opens
AnySettled(scan) ==
    scan.allFetches = <<>> \/ PendingFetches(scan) # DOMAIN scan.outcome

\* await Promise.all(allFetches): no fetch promise rejects, so the barrier
\* opens when every fetch has settled
AllSettled(scan) == PendingFetches(scan) = {}

\* a return that does not wait for the fetches still to settle
ReturnedUnsettled(s) ==
    /\ scans[s].pc = "fetch"
    /\ scans' = [scans EXCEPT ![s].pc = "returned"]
    /\ UNCHANGED <<collectedFiles, uploadedFileSet, zipContent, inputFiles,
                   modalShown, testName, generateDisabled, saved>>
    /\ Quiet

\* return result (line 382)
Returned(s) ==
    /\ scans[s].pc = "fetch"
    /\ AllSettled(scans[s])
    /\ scans' = [scans EXCEPT ![s].pc = "returned"]
    /\ UNCHANGED <<collectedFiles, uploadedFileSet, zipContent, inputFiles,
                   modalShown, testName, generateDisabled, saved>>
    /\ Quiet

\* processFiles after its second await (lines 151-163); the invocation ends
Validated(s) ==
    /\ scans[s].pc = "returned"
    /\ zipContent' = Some(scans[s].valid)
    /\ scans' = [scans EXCEPT ![s] = IdleScan]
    /\ UNCHANGED <<collectedFiles, uploadedFileSet, inputFiles, modalShown,
                   testName, generateDisabled, saved>>
    /\ Quiet

(***************************************************************************)
(* The modal (lines 389-422) and the generate handler (lines 428-576)      *)
(***************************************************************************)
\* the input handler of the base-name field, the user having typed value
validateInputs(value) ==
    /\ testName' = Sanitize(value)
    /\ generateDisabled' = ~IsValidName(Sanitize(value))
    /\ UNCHANGED <<collectedFiles, uploadedFileSet, zipContent, inputFiles, scans,
                   modalShown, saved>>
    /\ Quiet

\* hasAssets of the download handler (lines 411-415)
HasAssets == zipContent # Null /\ \E c \in Categories : Len(zipContent[1][c]) > 0

\* a gate that asks for fetched assets
DownloadGateAssetsOnly == HasAssets

DownloadGate == HasAssets \/ Len(collectedFiles) > 0

\* the click on the download button: the modal opens, or an alert
Download ==
    /\ alertText = ""
    /\ modalShown' = (modalShown \/ DownloadGate)
    /\ alertText' = IF DownloadGate THEN "" ELSE NotScannedAlert
    /\ UNCHANGED <<collectedFiles, uploadedFileSet, zipContent, inputFiles, scans,
                   testName, generateDisabled, saved>>

\* the user dismisses the alert on screen
AlertDismissed ==
    /\ alertText # ""
    /\ alertText' = ""
    /\ UNCHANGED <<collectedFiles, uploadedFileSet, zipContent, inputFiles, scans,
                   modalShown, testName, generateDisabled, saved>>

\* .toLocaleDateString('en-GB', ...).replace(/ /g, '-').toLowerCase()
RECURSIVE HyphenateEachSpace(_)
HyphenateEachSpace(s) ==
    IF Len(s) = 0 THEN s
    ELSE (IF Ch(s, 1) = " " THEN "-" ELSE Ch(s, 1)) \o HyphenateEachSpace(Drop(s, 1))

DateStamp(localeDate) == toLowerCase(HyphenateEachSpace(localeDate))

\* the button can be clicked: the modal is open and the button enabled
CanGenerate == modalShown /\ ~generateDisabled

\* a build that packages the local files in the first archive only
BuildOnceOnly ==
    BuildZip(IF saved.status = "saved" THEN <<>> ELSE collectedFiles,
             zipContent, trim(testName))

\* the archive the generate handler would build in this state
Build == BuildZip(collectedFiles, zipContent, trim(testName))

\* a generate handler that empties the list of local files once the archive
\* is saved
GenerateClearing(localeDate) ==
    /\ CanGenerate
    /\ IF Build.status = "ok"
       THEN /\ saved' = [status |-> "saved",
                         filename |-> "Devpack-" \o trim(testName) \o "-"
                                      \o DateStamp(localeDate) \o ".zip"]
            /\ modalShown' = FALSE
            /\ collectedFiles' = <<>>
            /\ uploadedFileSet' = {}
       ELSE /\ saved' = [status |-> Build.status, filename |-> ""]
            /\ UNCHANGED <<modalShown, collectedFiles, uploadedFileSet>>
    /\ UNCHANGED <<zipContent, inputFiles, scans, testName, generateDisabled>>
    /\ Quiet

\* the click on the generate button, the date being localeDate.  The zip is
\* complete before the await of line 571, which reads nothing else; the
\* archive handed to saveAs is Build as it is when the button is clicked.
Generate(localeDate) ==
    /\ CanGenerate
    /\ IF Build.status = "ok"
       THEN /\ saved' = [status |-> "saved",
                         filename |-> "Devpack-" \o trim(testName) \o "-"
                                      \o DateStamp(localeDate) \o ".zip"]
            /\ modalShown' = FALSE
       ELSE /\ saved' = [status |-> Build.status, filename |-> ""]
            /\ UNCHANGED modalShown
    /\ UNCHANGED <<collectedFiles, uploadedFileSet, zipContent, inputFiles, scans,
                   testName, generateDisabled>>
    /\ Quiet

(***************************************************************************)
(* The session: every handler, on two local files of the same name         *)
(***************************************************************************)
MaxBatch == 2

SessionDisk ==
    {File("a.js", 1, 1, "<img src=\"//h/d/a.png\">"),
     File("a.js", 2, 1, "a{background:url(https://h/e/a.png?v=2)}")}

SessionFlags == {AllIncluded}

HttpStatuses == {404}

NetworkErrors == {"Failed to fetch"}

BodyErrors == {"network error"}

TypedNames == {"My Test #1", " # "}

LocaleDates == {"05 November 2026"}

\* the slots the session uses
SessionSlots == {1}

Init ==
    /\ collectedFiles = <<>>
    /\ uploadedFileSet = {}
    /\ zipContent = Null
    /\ inputFiles = [i \in Inputs |-> <<>>]
    /\ scans = [s \in Slots |-> IdleScan]
    /\ modalShown = FALSE
    /\ testName = ""
    /\ generateDisabled = TRUE
    /\ alertText = ""
    /\ saved = NotSaved

ExtractStep(s) ==
    \/ FileUnreadable(s)
    \/ FileRead(s)

FetchStep(s) ==
    \/ validateAndFetchAssets(s)
    \/ \E k \in 1..Len(scans[s].allFetches) : FetchOk(s, k)
    \/ \E k \in 1..Len(scans[s].allFetches), status \in HttpStatuses :
          FetchNotOk(s, k, status)
    \/ \E k \in 1..Len(scans[s].allFetches), message \in NetworkErrors :
          FetchRejected(s, k, message)
    \/ \E k \in 1..Len(scans[s].allFetches), message \in BodyErrors :
          BlobRejected(s, k, message)
    \/ Returned(s)
    \/ Validated(s)

Next ==
    \/ \E files \in SeqsUpTo(SessionDisk, MaxBatch) : Dropped(files)
    \/ \E files \in SeqsUpTo(SessionDisk, 1) : Changed("js", files)
    \/ \E s \in SessionSlots, include \in SessionFlags : processFiles(s, include)
    \/ \E s \in SessionSlots : ExtractStep(s)
    \/ \E s \in SessionSlots : FetchStep(s)
    \/ \E value \in TypedNames : validateInputs(value)
    \/ Download
    \/ AlertDismissed
    \/ \E localeDate \in LocaleDates : Generate(localeDate)

Spec == Init /\ [][Next]_vars

(***************************************************************************)
(* Adding files only: every sequence of drop and file-select events        *)
(***************************************************************************)
\* a file the drop handler filters out
Undroppable == File("notes.txt", 1, 1, "")

NextFiles ==
    \/ \E files \in SeqsUpTo(SessionDisk \cup {Undroppable}, MaxBatch) : Dropped(files)
    \/ \E input \in Inputs, files \in SeqsUpTo(SessionDisk, MaxBatch) :
          Changed(input, files)

SpecFiles == Init /\ [][NextFiles]_vars

(***************************************************************************)
(* Extraction only: a scan just started on any list of files and any flags *)
(***************************************************************************)
MaxFiles == 3

ExtractDisk ==
    {File("page.html", 1, 1, "<img src=\"//cdn.example.com/a/b.png\">"),
     File("app.js", 1, 1,
          "url(//h/d/a.png) \"https://h/d/a.png\" https://h/d/a.js?x=b.png"),
     File("lib.js", 1, 1, "//h/d/b.JS url('https://h/d/f.woff2')"),
     File("style.css", 1, 1, "@import 'https://h/e/s.css'; a{b:url( //h/d/a.png )}")}

NoRepeat(q) == \A i, j \in 1..Len(q) : i # j => q[i] # q[j]

\* the state in which processFiles(s, include) leaves a session that has only
\* added files
Scanning(files, s, scan) ==
    /\ collectedFiles = files
    /\ uploadedFileSet = {FileKey(files[k]) : k \in 1..Len(files)}
    /\ zipContent = Null
    /\ inputFiles = [i \in Inputs |-> <<>>]
    /\ scans = [t \in Slots |-> IF t = s THEN scan ELSE IdleScan]
    /\ alertText = ""
    /\ saved = NotSaved

InitExtract ==
    /\ \E files \in SeqsUpTo(ExtractDisk, MaxFiles), include \in Flags :
          /\ files # <<>>
          /\ NoRepeat(files)
          /\ Scanning(files, 1, [IdleScan EXCEPT !.pc = "extract",
                                                 !.include = include,
                                                 !.allFiles = files])
    /\ modalShown = FALSE
    /\ testName = ""
    /\ generateDisabled = TRUE

NextExtract == ExtractStep(1)

SpecExtract == InitExtract /\ [][NextExtract]_vars

(***************************************************************************)
(* Fetch and build: a scan of one file whose extraction has just ended     *)
(***************************************************************************)
PipelineDisk ==
    {File("page.html", 1, 1,
          "<img src=\"//h/d/a.png\"> url(https://h/e/a.png?v=2) '//h/f/duplicate-1-a.png'"),
     File("app.js", 1, 1, "https://h/d/a.js?v=/x.css https://h/e/x.css //h/d/f.woff2"),
     File("style.css", 1, 1,
          "HTTP://h/d/a.PNG url(//h/d/m.mp4) url(//h/d/g.gif) //h/d/c.webp"),
     File("index.html", 1, 1, "https://h/d/a.png?x=/p.png https://h/e/a.png?x=/q.png")}

\* extractAssetsFromFiles on files that are all read
RECURSIVE Extracted(_, _, _, _)
Extracted(assets, files, k, include) ==
    IF k > Len(files) THEN assets
    ELSE Extracted(AddMatches(assets, matchAll(files[k].text, 1), include),
                   files, k + 1, include)

InitPipeline ==
    /\ \E file \in PipelineDisk :
          Scanning(<<file>>, 1,
                   [IdleScan EXCEPT !.pc = "validate",
                                    !.allFiles = <<file>>,
                                    !.read = <<TRUE>>,
                                    !.assets = Extracted(EmptyAssets, <<file>>, 1,
                                                         AllIncluded)])
    /\ modalShown = FALSE
    /\ testName = ""
    /\ generateDisabled = TRUE

\* the days on which the archive is generated
PipelineDates == LocaleDates \cup {"06 November 2026"}

NextPipeline ==
    \/ FetchStep(1)
    \/ \E value \in TypedNames : validateInputs(value)
    \/ Download
    \/ \E localeDate \in PipelineDates : Generate(localeDate)

SpecPipeline == InitPipeline /\ [][NextPipeline]_vars

(***************************************************************************)
(* Properties of the session and of adding files                           *)
(***************************************************************************)
\* the identity of a local file
Identity(f) == <<f.name, f.size, f.lastModified>>

\* the positions of the local files in a zip
LocalPaths(zip) == {k \in 1..Len(zip) : zip[k][2].kind = "file"}

\* C1: in every state where the generate button can be clicked (the download
\* gate has passed and a non-empty sanitized name is entered) the build runs to
\* completion and emits an archive, also when only local files were added and
\* no scan has stored a mapping; and no click on the button has ended without
\* an archive.
C1_GenerateNeverFails ==
    /\ CanGenerate => Build.status = "ok"
    /\ saved.status \in {"none", "saved"}

\* C2: no two entries of collectedFiles have the same identity (name, size,
\* lastModified); adding a file whose identity is already present leaves the
\* length of collectedFiles unchanged, and adding a file with a new identity
\* increases it by exactly 1.
C2_UniqueIdentity ==
    /\ \A i, j \in 1..Len(collectedFiles) :
          i # j => Identity(collectedFiles[i]) # Identity(collectedFiles[j])
    /\ \A f \in SessionDisk \cup {Undroppable} :
          LET present == \E k \in 1..Len(collectedFiles) :
                            Identity(collectedFiles[k]) = Identity(f)
              after == updatePreview(collectedFiles, uploadedFileSet, <<f>>)
          IN  Len(after.collectedFiles)
                 = Len(collectedFiles) + (IF present THEN 0 ELSE 1)

\* one file selected twice in one event and once more in another event, and
\* listed once
C2_RepeatedFileListedOnce ==
    \E f \in SessionDisk :
        /\ inputFiles.js = <<f, f>>
        /\ inputFiles.css = <<f>>
        /\ collectedFiles = <<f>>

\* C3: in an archive build, local files with distinct identities and the same
\* name are written under pairwise distinct names: the number of local-file
\* paths in the archive equals the number of entries of collectedFiles, and
\* the content of every local file is in the archive (none is overwritten).
C3_LocalNamesDistinct ==
    (CanGenerate /\ Build.status = "ok") =>
        /\ Cardinality(LocalPaths(Build.zip)) = Len(collectedFiles)
        /\ \A k \in 1..Len(collectedFiles) :
              LocalFile(collectedFiles[k]) \in Values(Build.zip)

(***************************************************************************)
(* Properties of extraction                                                *)
(***************************************************************************)
\* the substrings the pattern has matched in the files read so far
Matched(scan) ==
    UNION {Range(matchAll(scan.allFiles[k].text, 1)) :
              k \in {j \in 1..Len(scan.read) : scan.read[j]}}

\* the first pattern of the chain that a URL matches
FirstCategory(fullUrl) ==
    IF JsPattern(fullUrl) THEN "js"
    ELSE IF CssPattern(fullUrl) THEN "css"
    ELSE IF ImagePattern(fullUrl) THEN "images"
    ELSE IF FontPattern(fullUrl) THEN "fonts"
    ELSE "none"

\* the category an extension of the pattern belongs to
ExtensionCategory(ext) ==
    IF ext = "js" THEN "js"
    ELSE IF ext = "css" THEN "css"
    ELSE IF ext \in {"woff2", "woff", "ttf", "otf", "eot"} THEN "fonts"
    ELSE "images"

\* C7: a matched URL is in a set only if that set is the one of the first
\* pattern it matches (priority js, css, image, font) and that category's flag
\* is true; with that flag false the URL is in no set at all.
C7_GatingExcludes ==
    LET scan == scans[1]
    IN  \A rawUrl \in Matched(scan) : \A c \in Categories :
            Normalize(rawUrl) \in Range(scan.assets[c])
               => c = FirstCategory(Normalize(rawUrl)) /\ scan.include[c]

\* C8: for every combination of flags and every file list, the four sets
\* images, css, js and fonts of an extraction are pairwise disjoint.
C8_SetsDisjoint ==
    \A c, d \in Categories :
        c # d => Range(scans[1].assets[c]) \cap Range(scans[1].assets[d]) = {}

\* an extraction with every flag on has ended with a URL that passes the js
\* test and the image test in the js set, and the image set not empty
C8_AmbiguousUrlClassified ==
    /\ scans[1].pc = "validate"
    /\ scans[1].include = AllIncluded
    /\ "https://h/d/a.js?x=b.png" \in Range(scans[1].assets.js)
    /\ "https://h/d/a.png" \in Range(scans[1].assets.images)

\* C9: every match whose extension (in any letter case the pattern accepts)
\* belongs to a category whose flag is true appears exactly once, with a
\* leading // replaced by https://, in that category's set.
C9_EveryMatchOnce ==
    LET scan == scans[1]
    IN  \A rawUrl \in Matched(scan) :
            LET c == ExtensionCategory(ExtensionOf(rawUrl))
            IN  scan.include[c] =>
                   Cardinality({i \in 1..Len(scan.assets[c]) :
                                   scan.assets[c][i] = Normalize(rawUrl)}) = 1

(***************************************************************************)
(* Properties of the fetch batch and of the archive                        *)
(***************************************************************************)
\* the fetches of a batch that succeeded
Succeeded(scan) == {k \in DOMAIN scan.outcome : scan.outcome[k].kind = "ok"}

\* the number of entries of a mapping of four maps
TotalEntries(valid) ==
    Len(valid.images) + Len(valid.css) + Len(valid.js) + Len(valid.fonts)

\* the number of entries of the map of category c whose blob is the body of url
EntriesOf(valid, c, url) ==
    Cardinality({j \in 1..Len(valid[c]) : valid[c][j][2] = Blob(url)})

\* C4: in one fetch batch, whatever the order in which the fetches complete,
\* the generated filenames are pairwise distinct across the four categories,
\* the number of entries of the valid maps equals the number of fetches that
\* succeeded, each successful fetch has its entry, and a failed fetch uses no
\* name.
C4_BatchNamesDistinct ==
    LET scan == scans[1]
    IN  /\ \A c, d \in Categories :
              c # d => Keys(scan.valid[c]) \cap Keys(scan.valid[d]) = {}
        /\ TotalEntries(scan.valid) = Cardinality(Succeeded(scan))
        /\ Cardinality(scan.assetNameTracker) = Cardinality(Succeeded(scan))
        /\ \A k \in Succeeded(scan) :
              EntriesOf(scan.valid, scan.allFetches[k].type, scan.allFetches[k].url) = 1

\* a batch of three successful fetches has returned, two of them in different
\* categories with the same base name
C4_CollisionAcrossCategories ==
    /\ scans[1].pc = "returned"
    /\ Cardinality(Succeeded(scans[1])) = 3
    /\ \E c, d \in Categories :
          /\ c # d
          /\ \E n \in Keys(scans[1].valid[c]) :
                DuplicateName(1, n) \in Keys(scans[1].valid[d])

\* C5: validateAndFetchAssets returns only when every fetch it issued has
\* settled, and at that moment every URL of the input mapping is accounted for
\* exactly once: as one entry of the valid map of its own category or as one
\* entry of the failed list with its own category, never both, never neither.
C5_EveryUrlAccountedOnce ==
    LET scan == scans[1]
        failedAs(rawUrl, c) ==
            {j \in 1..Len(scan.failed) :
                /\ scan.failed[j].url \in {rawUrl, FetchUrl(rawUrl)}
                /\ scan.failed[j].type = c}
    IN  scan.pc = "returned" =>
           /\ \A k \in DOMAIN scan.outcome : scan.outcome[k].kind # "pending"
           /\ \A c \in Categories : \A i \in 1..Len(scan.assets[c]) :
                 LET rawUrl == scan.assets[c][i]
                 IN  /\ EntriesOf(scan.valid, c, FetchUrl(rawUrl))
                           + Cardinality(failedAs(rawUrl, c)) = 1
                     /\ \A d \in Categories \ {c} :
                           /\ EntriesOf(scan.valid, d, FetchUrl(rawUrl)) = 0
                           /\ failedAs(rawUrl, d) = {}
           /\ TotalEntries(scan.valid) + Len(scan.failed) = TotalEntries(scan.assets)

\* a batch has returned with a successful fetch, a fetch that failed and a URL
\* that was never fetched
C5_ReturnedWithFailures ==
    /\ scans[1].pc = "returned"
    /\ Succeeded(scans[1]) # {}
    /\ \E k \in DOMAIN scans[1].outcome : scans[1].outcome[k].kind = "status"
    /\ Len(scans[1].failed) >= 3

\* C6: a fetch that returns status S leaves one failed entry with the reason
\* "HTTP S" and no valid entry; a fetch that throws, or whose body read throws,
\* leaves one failed entry whose reason is the error's message and no valid
\* entry; a URL that after trimming and //-normalization does not start with
\* http:// or https:// is failed as "Unsupported or local path" and no fetch
\* is issued for it.
C6_FailureReasons ==
    LET scan == scans[1]
    IN  /\ \A k \in DOMAIN scan.outcome :
              LET f == scan.allFetches[k]
                  o == scan.outcome[k]
                  entries == {j \in 1..Len(scan.failed) : scan.failed[j].url = f.url}
              IN  o.kind \in {"status", "network", "body"} =>
                     /\ Cardinality(entries) = 1
                     /\ \A j \in entries :
                           /\ scan.failed[j].type = f.type
                           /\ scan.failed[j].reason =
                                 IF o.kind = "status"
                                 THEN "HTTP " \o ToString(o.status)
                                 ELSE o.message
                     /\ \A c \in Categories : EntriesOf(scan.valid, c, f.url) = 0
        /\ scan.pc \in {"fetch", "returned"} =>
              \A c \in Categories : \A i \in 1..Len(scan.assets[c]) :
                 LET rawUrl == scan.assets[c][i]
                     url == Normalize(trim(rawUrl))
                 IN  ~(startsWith(url, "http://") \/ startsWith(url, "https://")) =>
                        /\ [url |-> rawUrl, type |-> c,
                            reason |-> "Unsupported or local path"]
                              \in Range(scan.failed)
                        /\ \A k \in DOMAIN scan.allFetches :
                              scan.allFetches[k].url \notin {rawUrl, url}

\* a batch has returned with a failure of each kind
C6_EachKindOfFailure ==
    /\ scans[1].pc = "returned"
    /\ {"Unsupported or local path", "HTTP 404", "Failed to fetch", "network error"}
          = {scans[1].failed[j].reason : j \in 1..Len(scans[1].failed)}
    /\ \A c \in Categories : scans[1].valid[c] = <<>>

\* the final path segment of a URL
FinalSegment(url) == AfterLast(BeforeFirst(url, {"?", "#"}), "/")

\* the archive paths that hold the body of url
PathsOf(zip, url) == {zip[k][1] : k \in {j \in 1..Len(zip) : zip[j][2] = Blob(url)}}

\* the folder the layout gives to an entry of category c named filename
FolderOf(c, filename) ==
    CASE c = "js" -> "script/"
      [] c = "css" -> "style/"
      [] c = "fonts" -> "assets/fonts/"
      [] OTHER -> IF IsVideoName(filename) THEN "assets/videos/"
                  ELSE IF IsGifName(filename) THEN "assets/gifs/"
                  ELSE "assets/images/"

\* every entry of the stored mapping is at exactly one archive path, which is
\* its own filename in the folder of its kind, and the archive holds one
\* fetched body per entry
OnePathPerEntry ==
    /\ Build.status = "ok"
    /\ \A c \in Categories : \A i \in 1..Len(zipContent[1][c]) :
          LET filename == zipContent[1][c][i][1]
          IN  PathsOf(Build.zip, zipContent[1][c][i][2].of)
                 = {trim(testName) \o "-devpack/" \o FolderOf(c, filename) \o filename}
    /\ Cardinality({k \in 1..Len(Build.zip) : Build.zip[k][2].kind = "blob"})
          = TotalEntries(zipContent[1])

\* C10 as the specification states it: in every archive build the filenames
\* of each folder are pairwise distinct and every entry of the fetched-asset
\* mapping has exactly one archive path, and two fetched images whose URLs
\* share the final path segment B are packaged as B and duplicate-1-B.
C10_PackagedAsBAndDuplicate1 ==
    (zipContent # Null /\ CanGenerate) =>
        /\ OnePathPerEntry
        /\ LET images == zipContent[1].images
           IN  \A i, j \in 1..Len(images) :
                  LET B == FinalSegment(images[i][2].of)
                  IN  (i < j /\ FinalSegment(images[j][2].of) = B) =>
                         \E folder \in {"assets/images/", "assets/videos/", "assets/gifs/"} :
                            PathsOf(Build.zip, images[i][2].of)
                               \cup PathsOf(Build.zip, images[j][2].of)
                               = {trim(testName) \o "-devpack/" \o folder \o B,
                                  trim(testName) \o "-devpack/" \o folder
                                     \o DuplicateName(1, B)}

\* C10, amended: whenever a fetched-asset mapping is stored, the archive built
\* from it holds every entry of the mapping at exactly one path, under the
\* filename the fetch batch gave the entry, in the folder of its kind; the
\* filenames of each folder are therefore pairwise distinct and no entry
\* overwrites another.  Two fetched images whose URLs share the final path
\* segment are packaged under two distinct filenames.
C10_OnePathPerEntry ==
    zipContent # Null =>
        /\ OnePathPerEntry
        /\ LET images == zipContent[1].images
           IN  \A i, j \in 1..Len(images) :
                  (i < j /\ FinalSegment(images[i][2].of) = FinalSegment(images[j][2].of))
                     => /\ images[i][1] # images[j][1]
                        /\ PathsOf(Build.zip, images[i][2].of)
                              \cap PathsOf(Build.zip, images[j][2].of) = {}

\* an archive has been saved whose mapping holds three images, two of them
\* with the same final path segment a.png and named a.png and
\* duplicate-2-a.png
C10_SavedWithRenamedImages ==
    /\ saved.status = "saved"
    /\ zipContent # Null
    /\ Len(zipContent[1].images) = 3
    /\ \E i, j \in 1..3 :
          /\ zipContent[1].images[i] = <<"a.png", Blob("https://h/d/a.png")>>
          /\ zipContent[1].images[j] = <<"duplicate-2-a.png", Blob("https://h/e/a.png?v=2")>>

(***************************************************************************)
(* Properties of the layout of the archive                                 *)
(***************************************************************************)
\* the folders the build can create under the root
LayoutFolders ==
    {"assets/", "assets/images/", "assets/fonts/", "assets/videos/", "assets/gifs/",
     "script/", "style/"}

\* the fetched bodies a zip holds under the path of a folder
PlacedIn(zip, path) ==
    {k \in 1..Len(zip) : zip[k][2].kind = "blob" /\ startsWith(zip[k][1], path)}

\* C11: in every archive build a folder exists only if at least one entry is
\* placed in it (assets/ only if one of its sub-folders receives an entry):
\* no empty folder is created.
C11_NoEmptyFolder ==
    (zipContent # Null /\ CanGenerate) =>
        \A folder \in LayoutFolders :
            LET path == trim(testName) \o "-devpack/" \o folder
            IN  path \in Keys(Build.zip) => PlacedIn(Build.zip, path) # {}

\* the folders of LayoutFolders that hold the body of url in a zip
FoldersOf(zip, root, url) ==
    {folder \in LayoutFolders \ {"assets/"} :
        \E p \in PathsOf(zip, url) : startsWith(p, root \o folder)}

\* the folder the layout fixes for an entry of category c named filename
LayoutFolder(c, filename) ==
    LET lower == toLowerCase(filename)
    IN  IF c = "js" THEN "script/"
        ELSE IF c = "css" THEN "style/"
        ELSE IF c = "fonts" THEN "assets/fonts/"
        ELSE IF endsWith(lower, ".mp4") \/ endsWith(lower, ".webm")
                \/ endsWith(lower, ".ogg") THEN "assets/videos/"
        ELSE IF endsWith(lower, ".gif") THEN "assets/gifs/"
        ELSE "assets/images/"

\* C12: in every archive build each entry of valid.js is in script/ only, each
\* entry of valid.css in style/ only, each entry of valid.fonts in
\* assets/fonts/ only, and each entry of valid.images in exactly one of
\* assets/images/, assets/videos/ and assets/gifs/, chosen by the extension of
\* its filename; no entry is omitted or placed in two folders.
C12_FixedLayout ==
    zipContent # Null =>
        \A c \in Categories : \A i \in 1..Len(zipContent[1][c]) :
            LET filename == zipContent[1][c][i][1]
                url == zipContent[1][c][i][2].of
            IN  /\ Cardinality(PathsOf(Build.zip, url)) = 1
                /\ FoldersOf(Build.zip, trim(testName) \o "-devpack/", url)
                      = {LayoutFolder(c, filename)}

\* an archive has been saved that holds a video, a gif and an image, all
\* three fetched as images
C12_SavedVideoGifAndImage ==
    /\ saved.status = "saved"
    /\ zipContent # Null
    /\ Keys(zipContent[1].images) = {"m.mp4", "g.gif", "c.webp"}

(***************************************************************************)
(* Properties of the scan                                                  *)
(***************************************************************************)
\* C13: a scan triggered when no file is present (none in the three inputs,
\* collectedFiles empty) is aborted with a visible error and changes no
\* state: while no file is present, collectedFiles and the key set are empty,
\* no mapping is stored, and no extraction or fetch runs in any slot; the
\* alert is shown only in such a state.
C13_EmptyScanAborted ==
    /\ Len(AllFiles) = 0 =>
          /\ collectedFiles = <<>>
          /\ uploadedFileSet = {}
          /\ zipContent = Null
          /\ \A s \in Slots : scans[s] = IdleScan
    /\ alertText = NoFilesAlert => Len(AllFiles) = 0

\* the scan button has been clicked with no file present
C13_NoFilesAlertShown ==
    /\ alertText = "Please add files before scanning."
    /\ collectedFiles = <<>>
    /\ inputFiles = [i \in Inputs |-> <<>>]

\* the filenames of a mapping
NamesOf(valid) == UNION {Keys(valid[c]) : c \in Categories}

\* every filename of a mapping is the base name of its URL, or that base with
\* the first prefix duplicate-n- that the names of this same mapping leave
\* free: the names were given by a tracker that started empty
NamedFromEmptyTracker(valid) ==
    \A c \in Categories : \A i \in 1..Len(valid[c]) :
        LET name == valid[c][i][1]
            base == UrlBase(valid[c][i][2].of)
        IN  \/ name = base
            \/ \E n \in 1..Cardinality(NamesOf(valid)) :
                  /\ name = DuplicateName(n, base)
                  /\ base \in NamesOf(valid)
                  /\ \A m \in 1..(n - 1) : DuplicateName(m, base) \in NamesOf(valid)

\* the step in which the scan of slot s stores its result
StoresResult(s) ==
    /\ scans[s].pc = "returned"
    /\ scans'[s].pc = "idle"

\* C14: every completed scan fully replaces the results of the scan before:
\* in the step that stores the result of a scan, zipContent becomes exactly
\* the valid mapping of that scan's own batch, every entry of which is the
\* body of a fetch of this batch that succeeded (nothing is carried over), and
\* the filenames are those a tracker that started empty gives.
C14_ScanReplacesResults ==
    [][\A s \in Slots :
          StoresResult(s) =>
             /\ zipContent' = Some(scans[s].valid)
             /\ TotalEntries(scans[s].valid) = Cardinality(Succeeded(scans[s]))
             /\ \A k \in Succeeded(scans[s]) :
                   EntriesOf(scans[s].valid, scans[s].allFetches[k].type,
                             scans[s].allFetches[k].url) = 1
             /\ NamedFromEmptyTracker(scans[s].valid)]_vars

\* a second scan is about to store a result in which the name a.png, held by
\* another URL in the stored result of the scan before, is given without a
\* prefix
C14_SecondScanReusesName ==
    /\ scans[1].pc = "returned"
    /\ zipContent = Some([EmptyValid EXCEPT
                             !.images = <<<<"a.png", Blob("https://h/d/a.png")>>>>])
    /\ scans[1].valid.images = <<<<"a.png", Blob("https://h/e/a.png?v=2")>>>>

\* the files of a scan whose text has been read, in the order of the list
ReadFiles(scan) ==
    LET wasRead(k) == scan.read[k]
        idx == SelectSeq([k \in 1..Len(scan.read) |-> k], wasRead)
    IN  [j \in 1..Len(idx) |-> scan.allFiles[idx[j]]]

\* C15: a failure to read one file is not fatal: the scan is never abandoned,
\* the sets hold exactly what the files that could be read contribute (the
\* unreadable file nothing, the files before and after it everything), and
\* once every file has been handled the scan is at the fetch step.
C15_ReadFailureNotFatal ==
    LET scan == scans[1]
    IN  /\ scan.pc \in {"extract", "validate"}
        /\ Len(scan.read) <= Len(scan.allFiles)
        /\ scan.pc = "validate" <=> Len(scan.read) = Len(scan.allFiles)
        /\ scan.assets = Extracted(EmptyAssets, ReadFiles(scan), 1, scan.include)

\* a scan of three files of which the second could not be read is at the
\* fetch step with the URLs of the first and of the third
C15_MiddleFileUnreadable ==
    /\ scans[1].pc = "validate"
    /\ scans[1].read = <<TRUE, FALSE, TRUE>>
    /\ scans[1].include = AllIncluded
    /\ scans[1].allFiles[1].name = "page.html"
    /\ scans[1].allFiles[2].name = "app.js"
    /\ scans[1].allFiles[3].name = "style.css"
    /\ scans[1].assets.images = <<"https://cdn.example.com/a/b.png", "https://h/d/a.png">>
    /\ scans[1].assets.css = <<"https://h/e/s.css">>

(***************************************************************************)
(* Properties of the generated names                                       *)
(***************************************************************************)
\* C16: for every successfully fetched URL, the generated filename without
\* query and fragment is the final path segment of that URL, or that segment
\* behind a prefix duplicate-<n>-, for every batch and every completion order,
\* also for URLs whose final segment begins with duplicate-<n>- and URLs
\* whose query holds a "/".
C16_NameRoundTrip ==
    \A c \in Categories : \A i \in 1..Len(scans[1].valid[c]) :
        LET name == StripQuery(scans[1].valid[c][i][1])
            segment == FinalSegment(scans[1].valid[c][i][2].of)
        IN  \/ name = segment
            \/ \E n \in 1..Len(scans[1].allFetches) :
                  name = DuplicateName(n, segment)

(***************************************************************************)
(* Properties of the build as a function of its inputs                     *)
(***************************************************************************)
\* what the build makes of the inputs as they are after a step
BuiltAfterStep == BuildZip(collectedFiles', zipContent', trim(testName'))

MaxTyped == 3

\* a letter, a digit, a space, a character the field removes, a hyphen
TypedChars == {"a", "1", " ", "#", "-"}

\* the texts of at most n characters of TypedChars
RECURSIVE TextsUpTo(_)
TextsUpTo(n) ==
    IF n = 0 THEN {""}
    ELSE TextsUpTo(n - 1) \cup {t \o c : t \in TextsUpTo(n - 1), c \in TypedChars}

TypedTexts == TextsUpTo(MaxTyped) \cup TypedNames \cup {" \tAb \n 9_z- "}

\* the one local file that opens the way to the modal
NameDisk == {file \in SessionDisk : file.size = 1}

NextName ==
    \/ \E value \in TypedTexts : validateInputs(value)
    \/ \E file \in NameDisk : Dropped(<<file>>)
    \/ Download
    \/ AlertDismissed
    \/ \E localeDate \in LocaleDates : Generate(localeDate)

SpecName == Init /\ [][NextName]_vars

\* what is to be stored for a typed text: between its first and its last
\* character that is not whitespace, a hyphen for each run of whitespace, the
\* letters, digits and hyphens as they are, and nothing for any other
\* character
RECURSIVE NameFrom(_, _, _)
NameFrom(value, i, last) ==
    IF i > last THEN ""
    ELSE LET c == Ch(value, i)
             out == IF IsSpace(c)
                    THEN (IF IsSpace(Ch(value, i - 1)) THEN "" ELSE "-")
                    ELSE IF c \in Range(LowerCase) \cup Range(UpperCase)
                               \cup {"0", "1", "2", "3", "4", "5", "6", "7", "8", "9", "-"}
                    THEN c
                    ELSE ""
         IN  out \o NameFrom(value, i + 1, last)

ExpectedName(value) ==
    LET solid == {i \in 1..Len(value) : ~IsSpace(Ch(value, i))}
    IN  IF solid = {} THEN "" ELSE NameFrom(value, SetMin(solid), SetMax(solid))

\* C18: after every input event the stored name is the typed text trimmed,
\* with each whitespace run replaced by one hyphen and every character
\* outside [a-zA-Z0-9-] removed; it holds only such characters, sanitizing it
\* again changes nothing, the generate button is enabled if and only if it is
\* not empty, and the root folder of the archive is <name>-devpack.
C18_NameSanitized ==
    /\ \A value \in TypedTexts :
          /\ Sanitize(value) = ExpectedName(value)
          /\ Sanitize(Sanitize(value)) = Sanitize(value)
    /\ \E value \in TypedTexts \cup {""} : testName = ExpectedName(value)
    /\ \A i \in 1..Len(testName) : IsNameChar(Ch(testName, i))
    /\ generateDisabled <=> testName = ""
    /\ Build.zip[1] = <<testName \o "-devpack/", Dir>>
    /\ \A k \in 1..Len(Build.zip) : startsWith(Build.zip[k][1], testName \o "-devpack/")

\* a text with whitespace around it, a run of three whitespace characters
\* and a removed character has been typed with the modal open, and the button
\* is enabled
C18_TypedAndEnabled ==
    /\ testName = "Ab-9z-"
    /\ ~generateDisabled
    /\ modalShown

(***************************************************************************)
(* A scan from its start to its end, every read and every fetch ending     *)
(***************************************************************************)
InitLive ==
    /\ \E files \in SeqsUpTo(SessionDisk, MaxBatch) :
          /\ files # <<>>
          /\ NoRepeat(files)
          /\ Scanning(files, 1, [IdleScan EXCEPT !.pc = "extract",
                                                 !.allFiles = files])
    /\ modalShown = FALSE
    /\ testName = ""
    /\ generateDisabled = TRUE

NextLive ==
    \/ ExtractStep(1)
    \/ FetchStep(1)

\* every file read resolves or rejects, every fetch settles, and the
\* continuations of the awaits run
SpecLive ==
    /\ InitLive
    /\ [][NextLive]_vars
    /\ WF_vars(ExtractStep(1))
    /\ WF_vars(FetchStep(1))

\* C19: with a file present, every read ending and every fetch settling, a
\* started scan eventually stores its valid mapping and ends, whatever mix of
\* read failures, statuses and network errors occurs.
C19_ScanCompletes ==
    (scans[1].pc = "extract") ~> (scans[1].pc = "idle" /\ zipContent # Null)

\* the scan of two files has ended and stored a mapping, though nothing could
\* be fetched
C19_StoredThoughAllFailed ==
    /\ scans[1].pc = "idle"
    /\ Len(collectedFiles) = 2
    /\ zipContent = Some(EmptyValid)

(***************************************************************************)
(* The list of local files over a session                                  *)
(***************************************************************************)
KeysOfFiles(files) == {FileKey(files[k]) : k \in 1..Len(files)}

StartsWith(files, head) ==
    Len(head) <= Len(files) /\ SubSeq(files, 1, Len(head)) = head

\* the step is not an add event: something other than the list, its key set
\* and the files of the inputs changes
OtherOperation ==
    \/ scans' # scans
    \/ zipContent' # zipContent
    \/ modalShown' # modalShown
    \/ saved' # saved
    \/ testName' # testName
    \/ generateDisabled' # generateDisabled
    \/ alertText' # alertText

\* C20: collectedFiles is append-only.  Every step keeps the entries it had,
\* in their order, at the head of the list and keeps every key of the key
\* set; a step of a scan, of the modal or of a generation changes neither;
\* and the key set is always the set of identity keys of the list.
C20_AppendOnly ==
    /\ [](uploadedFileSet = KeysOfFiles(collectedFiles))
    /\ [][/\ StartsWith(collectedFiles', collectedFiles)
          /\ uploadedFileSet \subseteq uploadedFileSet'
          /\ OtherOperation => /\ collectedFiles' = collectedFiles
                               /\ uploadedFileSet' = uploadedFileSet]_vars

\* an archive has been generated and the two files added before it are still
\* listed, a scan having run as well
C20_ListKeptAfterArchive ==
    /\ saved.status = "saved"
    /\ Len(collectedFiles) = 2
    /\ zipContent # Null

(***************************************************************************)
(* The renaming loops, iteration by iteration                              *)
(***************************************************************************)
\* while (tracker.has(name)) name = `duplicate-${i++}-${base}`, run from the
\* values name and i have.  steps counts the iterations made; a run that has
\* made more iterations than the tracker has names is given up as hung.
RECURSIVE RenameRun(_, _, _, _)
RenameRun(name, base, i, tracker) ==
    IF name \notin tracker THEN [status |-> "ok", name |-> name, steps |-> i - 1]
    ELSE IF i > Cardinality(tracker) + 1
    THEN [status |-> "hung", name |-> name, steps |-> i - 1]
    ELSE RenameRun(DuplicateName(i, base), base, i + 1, tracker)

\* the loop on base ends, on the name the build or the batch goes on with
LoopEnds(base, tracker) ==
    LET run == RenameRun(base, base, 1, tracker)
    IN  /\ run.status = "ok"
        /\ run.steps <= Cardinality(tracker)
        /\ run.name = RenameLoop(base, tracker)

\* every loop of one folder ends, from entry k on
RECURSIVE FolderLoopsEnd(_, _, _, _)
FolderLoopsEnd(folder, map, k, normalizedTracker) ==
    IF k > Len(map) THEN TRUE
    ELSE IF ~InFolder(folder, map[k][1])
    THEN FolderLoopsEnd(folder, map, k + 1, normalizedTracker)
    ELSE /\ LoopEnds(StripQuery(map[k][1]), normalizedTracker)
         /\ FolderLoopsEnd(folder, map, k + 1,
                           normalizedTracker
                               \cup {RenameLoop(StripQuery(map[k][1]), normalizedTracker)})

\* the folders of the build and the mapping each one walks
FolderMaps(content) ==
    {<<"images", content.images>>, <<"fonts", content.fonts>>,
     <<"videos", content.images>>, <<"gifs", content.images>>,
     <<"script", content.js>>, <<"style", content.css>>}

\* C21: every collision-renaming loop terminates in every reachable state.
\* The local-file loop of the build is never entered with a key its tracker
\* holds; the loop of generateUniqueName, for every fetch still to settle,
\* and the loop of each folder, for the mapping stored, end on an unused
\* name after no more iterations than their tracker has names.
C21_LoopsTerminate ==
    /\ Build.status # "hung"
    /\ \A s \in Slots : \A k \in PendingFetches(scans[s]) :
          LoopEnds(UrlBase(scans[s].allFetches[k].url), scans[s].assetNameTracker)
    /\ zipContent # Null =>
          \A fm \in FolderMaps(zipContent[1]) : FolderLoopsEnd(fm[1], fm[2], 1, {})

\* two local files are listed, and a fetch still to settle has a base name
\* the batch has given already: its loop will be entered
C21_RenamePending ==
    /\ Len(collectedFiles) = 2
    /\ scans[1].pc = "fetch"
    /\ \E k \in PendingFetches(scans[1]) :
          UrlBase(scans[1].allFetches[k].url) \in scans[1].assetNameTracker

(***************************************************************************)
(* Two scans that overlap: the scan button is clicked again while the      *)
(* first invocation of processFiles is at one of its awaits                *)
(***************************************************************************)
\* a page that refers to an image and to a script
OverlapDisk ==
    {File("a.html", 1, 1, "<img src=\"//h/d/a.png\"><script src=\"//h/d/b.js\">")}

\* the boxes ticked at a click on the scan button: the images, or the scripts
OverlapFlags ==
    {[js |-> FALSE, css |-> FALSE, fonts |-> FALSE, images |-> TRUE],
     [js |-> TRUE, css |-> FALSE, fonts |-> FALSE, images |-> FALSE]}

\* the page has been added, and no scan has run
InitOverlap ==
    /\ \E file \in OverlapDisk : Scanning(<<file>>, 1, IdleScan)
    /\ modalShown = FALSE
    /\ testName = ""
    /\ generateDisabled = TRUE

NextOverlap ==
    \/ \E s \in Slots, include \in OverlapFlags : processFiles(s, include)
    \/ \E s \in Slots : ExtractStep(s)
    \/ \E s \in Slots : FetchStep(s)
    \/ \E value \in TypedNames : validateInputs(value)
    \/ Download
    \/ \E localeDate \in LocaleDates : Generate(localeDate)

SpecOverlap == InitOverlap /\ [][NextOverlap]_vars

\* the batch of scan has settled and valid is its whole result: one entry for
\* each fetch that succeeded, and no other
CompleteMappingOf(scan, valid) ==
    /\ PendingFetches(scan) = {}
    /\ valid = scan.valid
    /\ TotalEntries(valid) = Cardinality(Succeeded(scan))
    /\ \A k \in Succeeded(scan) :
          EntriesOf(valid, scan.allFetches[k].type, scan.allFetches[k].url) = 1

\* every entry of valid is the body of a fetch one scan with the boxes
\* include issues
FromOneBatch(valid, include) ==
    LET fetches == IssuedFetches(Extracted(EmptyAssets, AllFiles, 1, include))
    IN  \A c \in Categories : \A j \in 1..Len(valid[c]) :
           \E k \in 1..Len(fetches) :
              fetches[k].type = c /\ valid[c][j][2] = Blob(fetches[k].url)

\* the entries of valid are of categories that one click on the scan button
\* has ticked: the two kinds of batch share no category
OfOneClick(valid) ==
    \E include \in OverlapFlags : \A c \in Categories : Len(valid[c]) > 0 => include[c]

\* C22: the stored mapping is published atomically.  Under every
\* interleaving of two scans, of the completions of their fetches, of clicks
\* on the download button and of archive builds, zipContent is unset or
\* holds entries of one batch only; it changes only when an invocation whose
\* fetches have all settled stores its whole valid mapping, made of bodies
\* its own batch fetched; and a step that fills the mapping of a batch
\* leaves zipContent, which the build reads, as it is.
C22_PublishedAtomically ==
    /\ [](zipContent # Null => OfOneClick(zipContent[1]))
    /\ [][/\ zipContent' # zipContent =>
                \E s \in Slots : /\ scans[s].pc = "returned"
                                 /\ CompleteMappingOf(scans[s], zipContent'[1])
                                 /\ FromOneBatch(zipContent'[1], scans[s].include)
          /\ (\E s \in Slots : scans'[s].pc = "fetch" /\ scans'[s] # scans[s])
                => zipContent' = zipContent]_vars

\* the first scan has stored its mapping and an archive has been saved while
\* the second scan, started before the first ended, holds another mapping
\* that it has not stored yet
C22_StoredWhileOtherFills ==
    /\ scans[1].pc = "idle"
    /\ scans[2].pc = "fetch"
    /\ PendingFetches(scans[2]) = {}
    /\ TotalEntries(scans[2].valid) = 1
    /\ zipContent # Null
    /\ TotalEntries(zipContent[1]) = 1
    /\ zipContent[1] # scans[2].valid
    /\ saved.status = "saved"

====
